---------------------------- MODULE Spec2Model ----------------------------
(***************************************************************************)
(* Model of model/flow_matching.py: zero_center_func and the               *)
(* ConditionalFlowMatcher (masked, zero-centred, symmetric noise; the      *)
(* conditional path sampler; the conditional vector field).                *)
(*                                                                         *)
(* Tensors are batch-first, as the code indexes them: vmap maps over       *)
(* dimension 0, t is reshaped to (-1, 1, ..., 1), the mask is built with   *)
(* unsqueeze(1) and unsqueeze(2), the noise is transposed over axes 1 and  *)
(* 2, and the docstrings give the shape (bs, *dim).  (The comment          *)
(* "(n, n, b, d)" on line 45 does not fit these operations.)  A tensor is  *)
(* a sequence (the batch) of n x n matrices; a trailing feature axis, on   *)
(* which the code acts entry by entry, is left out.                        *)
(*                                                                         *)
(* Numbers are exact: a value is (n + e*eps)/d with eps the fill constant  *)
(* 1e-19 of masked_fill, and d = 0 for the IEEE specials (n = 0: NaN,      *)
(* n = 1: +Inf, n = -1: -Inf).  Floating-point rounding is not modelled.   *)
(* torch.randn is a nondeterministic choice, passed as the argument rand.  *)
(***************************************************************************)
EXTENDS Integers, Sequences, FiniteSets, TLC

VARIABLES self, call, loc, ret, pc

vars == <<self, call, loc, ret, pc>>

\* ------------------------------------------------------------ numbers

Abs(k) == IF k < 0 THEN -k ELSE k

Sign(k) == IF k < 0 THEN -1 ELSE IF k = 0 THEN 0 ELSE 1

RECURSIVE GCD(_, _)
GCD(a, b) == IF b = 0 THEN a ELSE GCD(b, a % b)

\* The number (n + e*eps)/d in lowest terms, d > 0; d = 0 gives NaN or +-Inf.
Norm(n, e, d) ==
    IF d = 0 THEN [n |-> Sign(n), e |-> 0, d |-> 0]
    ELSE IF d = 1 THEN [n |-> n, e |-> e, d |-> 1]
    ELSE LET g == GCD(GCD(Abs(n), Abs(e)), Abs(d))
             s == Sign(d)
         IN [n |-> (s * n) \div g, e |-> (s * e) \div g, d |-> Abs(d) \div g]

Rat(n, d) == Norm(n, 0, d)

FromInt(k) == [n |-> k, e |-> 0, d |-> 1]

NaN == [n |-> 0, e |-> 0, d |-> 0]

IsNaN(a) == a.d = 0 /\ a.n = 0

\* a + b (Inf + Inf = Inf, Inf - Inf = NaN, NaN + x = NaN)
FAdd(a, b) ==
    IF a.d = 0 /\ b.d = 0 THEN (IF a.n = b.n THEN a ELSE NaN)
    ELSE IF a.d = 0 THEN a
    ELSE IF b.d = 0 THEN b
    ELSE Norm(a.n * b.d + b.n * a.d, a.e * b.d + b.e * a.d, a.d * b.d)

\* a * b (0 * Inf = NaN).  The eps*eps term never arises: the fill constant is
\* only ever multiplied by the scalars 0.5 and sigma.
FMul(a, b) == Norm(a.n * b.n, a.n * b.e + a.e * b.n, a.d * b.d)

FNeg(a) == [n |-> -a.n, e |-> -a.e, d |-> a.d]

FSub(a, b) == FAdd(a, FNeg(b))

\* a / N for a count N >= 0 (0/0 = NaN, x/0 = +-Inf: torch true division)
FDiv(a, N) == Norm(a.n, a.e, a.d * N)

\* IEEE comparison: NaN differs from everything, itself included.
FEq(a, b) == ~IsNaN(a) /\ ~IsNaN(b) /\ a = b

FNe(a, b) == ~FEq(a, b)

\* a < b for finite a, b without an eps part
FLt(a, b) == a.n * b.d < b.n * a.d

\* ------------------------------------------------------------ shapes

\* The node axis of the checked matrices (n = 2: the smallest size with an
\* off-diagonal pair to transpose).
Nodes == {1, 2}

Pos == Nodes \X Nodes

\* One sample as the code sees it: indexed [i][j].
Mat(S) == [Nodes -> [Nodes -> S]]

RECURSIVE FSumOver(_, _)
\* torch.sum over a whole sample x (a function on Nodes, of functions on Nodes)
FSumOver(x, S) ==
    IF S = {} THEN FromInt(0)
    ELSE LET p == CHOOSE q \in S : TRUE
         IN FAdd(x[p[1]][p[2]], FSumOver(x, S \ {p}))

RECURSIVE ISumOver(_, _)
ISumOver(m, S) ==
    IF S = {} THEN 0
    ELSE LET p == CHOOSE q \in S : TRUE
         IN m[p[1]][p[2]] + ISumOver(m, S \ {p})

\* ------------------------------------------------------------ zero_center_func

\* N = node_mask.sum()
MaskSum(mask) == ISumOver(mask, Pos)

\* Mutant: the mean over all positions (x.mean()), not over the mask's count.
MeanOf_AllPositions(x, mask) == FDiv(FSumOver(x, Pos), Cardinality(Pos))

\* mean = torch.sum(x) / N : the sum runs over the whole tensor x
MeanOf(x, mask) == FDiv(FSumOver(x, Pos), MaskSum(mask))

\* x - mean * node_mask
zero_center_func(x, mask) ==
    LET mean == MeanOf(x, mask)
    IN [i \in Nodes |-> [j \in Nodes |->
          FSub(x[i][j], FMul(mean, FromInt(mask[i][j])))]]

\* ------------------------------------------------------------ zero_centered_noise

\* The fill constant of masked_fill: 1e-19
FILL == [n |-> 0, e |-> 1, d |-> 1]

\* x_batch = rand * node_mask_batch
MaskNoise(rand, node_mask_batch) ==
    [b \in DOMAIN rand |-> [i \in Nodes |-> [j \in Nodes |->
        FMul(rand[b][i][j], FromInt(node_mask_batch[b][i][j]))]]]

\* Mutant: zero_center_func applied once to the whole batch, without vmap (one
\* mean, over the sum and the count of all samples).
map_zero_center_WholeBatch(x_batch, node_mask_batch) ==
    LET B == DOMAIN x_batch
        total == FSumOver([b \in B |-> [i \in Nodes |->
                     FAdd(x_batch[b][i][1], x_batch[b][i][2])]], B \X Nodes)
        count == ISumOver([b \in B |-> [i \in Nodes |->
                     node_mask_batch[b][i][1] + node_mask_batch[b][i][2]]], B \X Nodes)
        mean == FDiv(total, count)
    IN [b \in B |-> [i \in Nodes |-> [j \in Nodes |->
          FSub(x_batch[b][i][j], FMul(mean, FromInt(node_mask_batch[b][i][j])))]]]

\* torch.vmap(zero_center_func): one call per index of dimension 0
map_zero_center(x_batch, node_mask_batch) ==
    [b \in DOMAIN x_batch |-> zero_center_func(x_batch[b], node_mask_batch[b])]

\* Mutant: the mask is not inverted, so the valid positions are filled.
masked_fill_NotInverted(x, node_mask_batch) ==
    [b \in DOMAIN x |-> [i \in Nodes |-> [j \in Nodes |->
        IF node_mask_batch[b][i][j] # 0 THEN FILL ELSE x[b][i][j]]]]

\* .masked_fill(~(node_mask_batch.bool()), 1e-19)
masked_fill(x, node_mask_batch) ==
    [b \in DOMAIN x |-> [i \in Nodes |-> [j \in Nodes |->
        IF node_mask_batch[b][i][j] = 0 THEN FILL ELSE x[b][i][j]]]]

\* rand is the value of torch.randn(size)
zero_centered_noise(rand, node_mask_batch) ==
    LET x_batch == MaskNoise(rand, node_mask_batch)
    IN masked_fill(map_zero_center(x_batch, node_mask_batch), node_mask_batch)

\* ------------------------------------------------------------ sample_be_matrix

\* The pad sentinel, imported from utils.data_utils (its value is set outside
\* this file; the model only compares against it).
MATRIX_PAD == FromInt(-30)

\* node_mask = (matrix[:, :, 0] != MATRIX_PAD) : entry 0 of every row
node_mask(matrix) ==
    [b \in DOMAIN matrix |-> [i \in Nodes |->
        IF FNe(matrix[b][i][1], MATRIX_PAD) THEN 1 ELSE 0]]

\* masks = (node_mask.unsqueeze(1) * node_mask.unsqueeze(2)).long()
masks(matrix) ==
    LET nm == node_mask(matrix)
    IN [b \in DOMAIN matrix |-> [i \in Nodes |-> [j \in Nodes |->
          nm[b][j] * nm[b][i]]]]

\* Mutant: the noise is used as drawn, without averaging with its transpose.
Symmetrize_Skipped(noise) == noise

\* noise = 0.5 * (noise + noise.transpose(1, 2))
Symmetrize(noise) ==
    [b \in DOMAIN noise |-> [i \in Nodes |-> [j \in Nodes |->
        FMul(Rat(1, 2), FAdd(noise[b][i][j], noise[b][j][i]))]]]

\* Mutant: the noise is added without the factor sigma.
AddNoise_Unscaled(matrix, noise, sigma) ==
    [b \in DOMAIN matrix |-> [i \in Nodes |-> [j \in Nodes |->
        FAdd(matrix[b][i][j], noise[b][i][j])]]]

\* matrix + noise * self.sigma
AddNoise(matrix, noise, sigma) ==
    [b \in DOMAIN matrix |-> [i \in Nodes |-> [j \in Nodes |->
        FAdd(matrix[b][i][j], FMul(noise[b][i][j], sigma))]]]

sample_be_matrix(sigma, matrix, rand) ==
    LET noise == Symmetrize(zero_centered_noise(rand, masks(matrix)))
    IN AddNoise(matrix, noise, sigma)

\* ------------------------------------------------------------ sample_conditional_pt

\* torch broadcasting of the batch axis: equal sizes, or one of them 1
Compatible(a, b) == a = b \/ a = 1 \/ b = 1

BSize(a, b) == IF a = 1 THEN b ELSE a

\* the entry of x that broadcasting pairs with batch index b
At(x, b) == IF Len(x) = 1 THEN x[1] ELSE x[b]

\* Mutant: every batch size must be equal (no broadcasting of a size of 1).
ShapesBroadcast_Strict(x0, x1, t) == Len(t) = Len(x1) /\ Len(t) = Len(x0)

\* t * x1 + (1 - t) * x0 is defined when every pair of batch sizes broadcasts
ShapesBroadcast(x0, x1, t) ==
    /\ Compatible(Len(t), Len(x1))
    /\ Compatible(Len(t), Len(x0))
    /\ Compatible(BSize(Len(t), Len(x1)), BSize(Len(t), Len(x0)))

\* Mutant: x0 is not weighted by (1 - t).
mu_t_Unweighted(x0, x1, t) ==
    LET B == BSize(BSize(Len(t), Len(x1)), Len(x0))
    IN [b \in 1..B |-> [i \in Nodes |-> [j \in Nodes |->
          FAdd(FMul(At(t, b), At(x1, b)[i][j]), At(x0, b)[i][j])]]]

\* t = t.reshape(-1, 1, 1); mu_t = t * x1 + (1 - t) * x0
mu_t(x0, x1, t) ==
    LET B == BSize(BSize(Len(t), Len(x1)), Len(x0))
    IN [b \in 1..B |-> [i \in Nodes |-> [j \in Nodes |->
          FAdd(FMul(At(t, b), At(x1, b)[i][j]),
               FMul(FSub(FromInt(1), At(t, b)), At(x0, b)[i][j]))]]]

sample_conditional_pt(sigma, x0, x1, t, rand) ==
    sample_be_matrix(sigma, mu_t(x0, x1, t), rand)

\* ------------------------------------------------------------ compute_conditional_vector_field

\* Mutant: the operands are exchanged.
compute_conditional_vector_field_Swapped(x0, x1) ==
    LET B == BSize(Len(x1), Len(x0))
    IN [b \in 1..B |-> [i \in Nodes |-> [j \in Nodes |->
          FSub(At(x0, b)[i][j], At(x1, b)[i][j])]]]

\* x1 - x0
compute_conditional_vector_field(x0, x1) ==
    LET B == BSize(Len(x1), Len(x0))
    IN [b \in 1..B |-> [i \in Nodes |-> [j \in Nodes |->
          FSub(At(x1, b)[i][j], At(x0, b)[i][j])]]]

\* ------------------------------------------------------------ __init__

\* Mutant: a non-positive sigma is replaced by its magnitude.
ConditionalFlowMatcher_Abs(args) ==
    [sigma |-> IF FLt(args.sigma, FromInt(0)) THEN FNeg(args.sigma) ELSE args.sigma]

\* self.sigma = args.sigma (device and emb_dim are stored the same way and
\* take no part in the arithmetic)
ConditionalFlowMatcher(args) == [sigma |-> args.sigma]

\* ------------------------------------------------------------ inputs

\* Largest magnitude of a value handed to zero_center_func.
MaxVal == 1

CenterVals == {FromInt(k) : k \in (-MaxVal)..MaxVal}

Bits == {0, 1}

None == <<>>

\* ------------------------------------------------------------ zero_center_func alone

InitCenter ==
    /\ self = ConditionalFlowMatcher([sigma |-> FromInt(1)])
    /\ call \in {[fn |-> "zero_center_func", x |-> x, node_mask |-> m] :
                    x \in Mat(CenterVals), m \in Mat(Bits)}
    /\ loc = None
    /\ ret = None
    /\ pc = "ready"

\* zero_center_func(x, node_mask): it has no failing path (a zero count
\* gives NaN or Inf, not an exception)
ZeroCenterFunc ==
    /\ pc = "ready"
    /\ call.fn = "zero_center_func"
    /\ ret' = zero_center_func(call.x, call.node_mask)
    /\ pc' = "returned"
    /\ UNCHANGED <<self, call, loc>>

NextCenter == ZeroCenterFunc

SpecCenter == InitCenter /\ [][NextCenter]_vars

\* sum(mask * y)
MaskedSum(y, mask) ==
    FSumOver([i \in Nodes |-> [j \in Nodes |-> FMul(y[i][j], FromInt(mask[i][j]))]], Pos)

\* x is zero wherever the mask is zero
ZeroOffMask(x, mask) ==
    \A p \in Pos : mask[p[1]][p[2]] = 0 => x[p[1]][p[2]] = FromInt(0)

CenterReturned == pc = "returned" /\ call.fn = "zero_center_func"

\* C3 as stated: for every 0/1 mask with mask-sum > 0 and every x (also x
\* non-zero where the mask is 0), sum(mask * zero_center_func(x, mask)) = 0.
C3_MaskedSumZero ==
    (CenterReturned /\ MaskSum(call.node_mask) > 0)
        => MaskedSum(ret, call.node_mask) = FromInt(0)

\* C3 amended: for every 0/1 mask with mask-sum > 0 and every x that is zero
\* wherever the mask is 0, sum(mask * zero_center_func(x, mask)) = 0; for any
\* x the masked sum is minus the sum of x over the positions outside the mask.
C3_MaskedSumZeroOnMaskedInput ==
    (CenterReturned /\ MaskSum(call.node_mask) > 0)
        => /\ ZeroOffMask(call.x, call.node_mask)
                => MaskedSum(ret, call.node_mask) = FromInt(0)
           /\ FAdd(MaskedSum(ret, call.node_mask), FSumOver(call.x, Pos))
                = MaskedSum(call.x, call.node_mask)

\* C3 witness: a partial mask, x zero outside it and of non-zero sum inside.
C3_Witness ==
    /\ CenterReturned
    /\ MaskSum(call.node_mask) > 0
    /\ MaskSum(call.node_mask) < Cardinality(Pos)
    /\ ZeroOffMask(call.x, call.node_mask)
    /\ FSumOver(call.x, Pos) # FromInt(0)

\* ------------------------------------------------------------ zero_centered_noise on a batch

\* The batch axis of the checked noise tensors.
Batch == 1..2

\* Values torch.randn may draw (a Gaussian draw is any finite value).
RandVals == {FromInt(-1), FromInt(2)}

\* The pairwise masks sample_be_matrix passes: the outer product of a node
\* mask with itself, per sample.
PairwiseMasks ==
    {[b \in Batch |-> [i \in Nodes |-> [j \in Nodes |-> nm[b][j] * nm[b][i]]]] :
        nm \in [Batch -> [Nodes -> Bits]]}

InitNoise ==
    /\ self = ConditionalFlowMatcher([sigma |-> FromInt(1)])
    /\ call \in {[fn |-> "zero_centered_noise", rand |-> r, node_mask_batch |-> m] :
                    r \in [Batch -> Mat(RandVals)], m \in PairwiseMasks}
    /\ loc = None
    /\ ret = None
    /\ pc = "ready"

\* self.zero_centered_noise(size, node_mask_batch): it has no failing path
ZeroCenteredNoise ==
    /\ pc = "ready"
    /\ call.fn = "zero_centered_noise"
    /\ ret' = zero_centered_noise(call.rand, call.node_mask_batch)
    /\ pc' = "returned"
    /\ UNCHANGED <<self, call, loc>>

\* A second call in which one entry of one sample (a draw or a mask bit) differs.
ZeroCenteredNoiseAgain ==
    /\ pc = "returned"
    /\ call.fn = "zero_centered_noise"
    /\ \E c \in Batch, p \in Pos :
          \/ \E v \in RandVals \ {call.rand[c][p[1]][p[2]]} :
                call' = [call EXCEPT !.rand[c][p[1]][p[2]] = v]
          \/ call' = [call EXCEPT !.node_mask_batch[c][p[1]][p[2]] = 1 - @]
    /\ ret' = zero_centered_noise(call'.rand, call'.node_mask_batch)
    /\ pc' = "again"
    /\ UNCHANGED <<self, loc>>

NextNoise == ZeroCenteredNoise \/ ZeroCenteredNoiseAgain

SpecNoise == InitNoise /\ [][NextNoise]_vars

NoiseReturned == pc \in {"returned", "again"} /\ call.fn = "zero_centered_noise"

\* C1: wherever the mask passed to zero_centered_noise is 0, the returned
\* noise is the fill constant, for every batch element and every draw.
C1_InvalidIsFill ==
    NoiseReturned =>
        \A b \in Batch, p \in Pos :
            call.node_mask_batch[b][p[1]][p[2]] = 0 => ret[b][p[1]][p[2]] = FILL

\* C1 witness: one sample masked in part, with a non-zero draw under a zero
\* of the mask, and one sample masked entirely (its NaN mean is overwritten).
C1_Witness ==
    /\ NoiseReturned
    /\ \E b \in Batch :
          /\ MaskSum(call.node_mask_batch[b]) > 0
          /\ \E p \in Pos : call.node_mask_batch[b][p[1]][p[2]] = 0
    /\ \E b \in Batch : MaskSum(call.node_mask_batch[b]) = 0

\* sample b has no valid position
Degenerate(b) == MaskSum(call.node_mask_batch[b]) = 0

\* C4 as stated: a call with a sample whose mask is all zero ends in an error,
\* not in a returned tensor.
C4_DegenerateRaises ==
    (call.fn = "zero_centered_noise" /\ pc # "ready" /\ \E b \in Batch : Degenerate(b))
        => pc = "raised"

\* what zero_center_func gives for sample b taken alone
AloneOf(b) ==
    zero_center_func(MaskNoise(<<call.rand[b]>>, <<call.node_mask_batch[b]>>)[1],
                     call.node_mask_batch[b])

\* C10: the output for sample b is zero_center_func of sample b's masked noise
\* and mask alone (mean and count over that sample only), and a second call
\* that differs only in another sample gives the same output for b.
C10_PerSample ==
    /\ [](NoiseReturned =>
            \A b \in Batch, p \in Pos :
                call.node_mask_batch[b][p[1]][p[2]] = 1
                    => ret[b][p[1]][p[2]] = AloneOf(b)[p[1]][p[2]])
    /\ [][(pc = "returned" /\ pc' = "again") =>
            \A b \in Batch :
                (call'.rand[b] = call.rand[b]
                    /\ call'.node_mask_batch[b] = call.node_mask_batch[b])
                => ret'[b] = ret[b]]_vars

\* C10 witness: a second call was made on two samples that both have valid
\* positions and whose draws differ.
C10_Witness ==
    /\ pc = "again"
    /\ call.fn = "zero_centered_noise"
    /\ \A b \in Batch : MaskSum(call.node_mask_batch[b]) > 1
    /\ call.rand[1] # call.rand[2]
    /\ call.node_mask_batch[1] # call.node_mask_batch[2]

\* ------------------------------------------------------------ the path sampler and the vector field

\* Values of a matrix entry: the pad sentinel and its two neighbours.
EntryVals == {FSub(MATRIX_PAD, FromInt(1)), MATRIX_PAD, FAdd(MATRIX_PAD, FromInt(1))}

\* Source batches of one sample: entry 0 of a row (the one the node mask reads)
\* takes every value of EntryVals, the other entry the sentinel or a valid value.
SourceBatches ==
    {<<m>> : m \in {q \in Mat(EntryVals) :
                      \A i \in Nodes : q[i][2] # FSub(MATRIX_PAD, FromInt(1))}}

\* Target batches of one sample: entry 0 of a row takes every value of
\* EntryVals, the other entry is a valid value.
TargetBatches ==
    {<<m>> : m \in {q \in Mat(EntryVals) :
                      \A i \in Nodes : q[i][2] = FAdd(MATRIX_PAD, FromInt(1))}}

\* The noise scales a matcher is constructed with.
Sigmas == {FromInt(-1), FromInt(0), FromInt(1)}

\* Time values in [0, 1]
TimeVals == {FromInt(0), Rat(1, 2), FromInt(1)}

PathTimes == [1..1 -> TimeVals]

\* the draws of torch.randn(masks.shape), by batch size
PathDraws == [B \in 1..1 |-> [1..B -> Mat(RandVals)]]

InitPath ==
    /\ \E a \in [sigma : Sigmas] :
          /\ self = ConditionalFlowMatcher(a)
          /\ call \in {[fn |-> "pending", args |-> a, x0 |-> x0, x1 |-> x1] :
                          x0 \in SourceBatches, x1 \in TargetBatches}
    /\ loc = None
    /\ ret = None
    /\ pc = "ready"

\* self.sample_conditional_pt(x0, x1, t) with t drawn from Times and
\* torch.randn(masks.shape) from Draws[batch size].  The arithmetic of line 72
\* raises when the batch sizes do not broadcast.
SampleConditionalPtOn(Times, Draws) ==
    /\ pc = "ready"
    /\ call.fn = "pending"
    /\ \E t \in Times :
          /\ call' = [call EXCEPT !.fn = "sample_conditional_pt"] @@ [t |-> t]
          /\ IF ShapesBroadcast(call.x0, call.x1, t)
             THEN LET mu == mu_t(call.x0, call.x1, t)
                  IN \E rand \in Draws[Len(mu)] :
                        /\ loc' = [mu_t |-> mu, masks |-> masks(mu), rand |-> rand]
                        /\ ret' = sample_be_matrix(self.sigma, mu, rand)
                        /\ pc' = "returned"
             ELSE loc' = None /\ ret' = None /\ pc' = "raised"
    /\ UNCHANGED self

SampleConditionalPt == SampleConditionalPtOn(PathTimes, PathDraws)

\* self.compute_conditional_vector_field(x0, x1)
ComputeConditionalVectorField ==
    /\ pc = "ready"
    /\ call.fn = "pending"
    /\ call' = [call EXCEPT !.fn = "compute_conditional_vector_field"]
    /\ IF Compatible(Len(call.x0), Len(call.x1))
       THEN ret' = compute_conditional_vector_field(call.x0, call.x1) /\ pc' = "returned"
       ELSE ret' = None /\ pc' = "raised"
    /\ UNCHANGED <<self, loc>>

NextPath == SampleConditionalPt \/ ComputeConditionalVectorField

SpecPath == InitPath /\ [][NextPath]_vars

Spec == SpecPath

PathReturned == pc = "returned" /\ call.fn = "sample_conditional_pt"

\* m[b][i][j] = m[b][j][i] everywhere
IsSymmetric(m) ==
    \A b \in DOMAIN m, p \in Pos : FEq(m[b][p[1]][p[2]], m[b][p[2]][p[1]])

\* C2 as stated: for every matrix given to sample_be_matrix, symmetric or
\* not, the returned matrix satisfies out[i,j] = out[j,i].
C2_OutputSymmetric == PathReturned => IsSymmetric(ret)

\* C2 amended: the perturbation out - matrix is symmetric for every input
\* matrix, and out[i,j] = out[j,i] for every input matrix that is itself
\* symmetric in the two node axes.
C2_SymmetricOnSymmetricInput ==
    PathReturned =>
        /\ \A b \in DOMAIN ret, p \in Pos :
              FSub(ret[b][p[1]][p[2]], loc.mu_t[b][p[1]][p[2]])
                = FSub(ret[b][p[2]][p[1]], loc.mu_t[b][p[2]][p[1]])
        /\ IsSymmetric(loc.mu_t) => IsSymmetric(ret)

\* C2 witness: a symmetric matrix with both nodes valid, perturbed by a draw
\* that is not symmetric, with sigma non-zero.
C2_Witness ==
    /\ PathReturned
    /\ IsSymmetric(loc.mu_t)
    /\ \A b \in DOMAIN ret, p \in Pos : loc.masks[b][p[1]][p[2]] = 1
    /\ loc.rand[1][1][2] # loc.rand[1][2][1]
    /\ self.sigma # FromInt(0)
    /\ ret # loc.mu_t

AllTimesAre(v) == \A b \in DOMAIN call.t : call.t[b] = v

\* C5: with sigma = 0 the sampler returns t*x1 + (1-t)*x0 at every position,
\* so x0 when t is all 0 and x1 when t is all 1.
C5_ZeroSigmaIsInterpolation ==
    (PathReturned /\ self.sigma = FromInt(0)) =>
        /\ \A b \in DOMAIN ret, p \in Pos :
              ret[b][p[1]][p[2]]
                = FAdd(FMul(At(call.t, b), At(call.x1, b)[p[1]][p[2]]),
                       FMul(FSub(FromInt(1), At(call.t, b)), At(call.x0, b)[p[1]][p[2]]))
        /\ AllTimesAre(FromInt(0)) => ret = call.x0
        /\ AllTimesAre(FromInt(1)) => ret = call.x1

\* C5 witness: sigma = 0, t strictly inside (0, 1), x0 and x1 different, a
\* valid node (drawn noise) and a padded node (fill constant) in the sample.
C5_Witness ==
    /\ PathReturned
    /\ self.sigma = FromInt(0)
    /\ AllTimesAre(Rat(1, 2))
    /\ call.x0 # call.x1
    /\ \E p \in Pos : loc.masks[1][p[1]][p[2]] = 1
    /\ \E p \in Pos : loc.masks[1][p[1]][p[2]] = 0

FieldReturned == pc = "returned" /\ call.fn = "compute_conditional_vector_field"

\* C7: the vector field is x1 - x0 at every position, and exchanging the
\* arguments negates it.
C7_FieldAntisymmetric ==
    FieldReturned =>
        \A b \in DOMAIN ret, p \in Pos :
            /\ ret[b][p[1]][p[2]] = FSub(call.x1[b][p[1]][p[2]], call.x0[b][p[1]][p[2]])
            /\ ret[b][p[1]][p[2]]
                 = FNeg(compute_conditional_vector_field(call.x1, call.x0)[b][p[1]][p[2]])

\* C7 witness: the field is non-zero somewhere, also at a padded position.
C7_Witness ==
    /\ FieldReturned
    /\ \E p \in Pos : ret[1][p[1]][p[2]] # FromInt(0)
    /\ \E p \in Pos : call.x0[1][p[1]][p[2]] = MATRIX_PAD
                        /\ ret[1][p[1]][p[2]] # FromInt(0)

\* C8 as stated: no matcher with sigma <= 0 exists on which the sampler can
\* be called.
C8_NonPositiveSigmaRejected == PathReturned => FLt(FromInt(0), self.sigma)

\* C8 amended: construction does not check sigma: the matcher holds the sigma
\* it was given, non-positive values included, and the sampler returns on it.
C8_SigmaStoredUnchecked ==
    /\ self.sigma = call.args.sigma
    /\ (call.fn = "sample_conditional_pt" /\ ~FLt(FromInt(0), call.args.sigma))
          => pc = "returned"

\* C8 witness: the sampler returned on a matcher with a negative sigma.
C8_Witness ==
    /\ PathReturned
    /\ FLt(self.sigma, FromInt(0))
    /\ ret # loc.mu_t

\* the masks sample_be_matrix would derive at time vector t2
MasksAt(t2) == masks(mu_t(call.x0, call.x1, t2))

\* C9 as stated: for fixed x0 and x1 the masks derived from mu_t are the same
\* for every t, whatever x0 and x1 hold.
C9_MasksSameForAllT ==
    PathReturned => \A t2 \in PathTimes : MasksAt(t2) = loc.masks

\* x0 and x1 hold the sentinel at the same entries 0
SamePadding(x0, x1) ==
    \A b \in DOMAIN x0, i \in Nodes :
        (x0[b][i][1] = MATRIX_PAD) <=> (x1[b][i][1] = MATRIX_PAD)

\* no pair of entries 0 has the sentinel strictly between its two values
NoCrossing(x0, x1) ==
    \A b \in DOMAIN x0, i \in Nodes :
        /\ ~(FLt(x0[b][i][1], MATRIX_PAD) /\ FLt(MATRIX_PAD, x1[b][i][1]))
        /\ ~(FLt(x1[b][i][1], MATRIX_PAD) /\ FLt(MATRIX_PAD, x0[b][i][1]))

\* C9 amended: the masks are those of x0 at t = 0 and those of x1 at t = 1,
\* so they agree at the two ends when x0 and x1 hold the sentinel at the same
\* entries 0; in exact arithmetic they are then the same for every t, provided
\* no pair of valid entries 0 has the sentinel between its two values.
C9_MasksSameWhenPaddingAgrees ==
    PathReturned =>
        /\ (SamePadding(call.x0, call.x1) /\ NoCrossing(call.x0, call.x1))
              => \A t2 \in PathTimes : MasksAt(t2) = loc.masks
        /\ AllTimesAre(FromInt(0)) => loc.masks = masks(call.x0)
        /\ AllTimesAre(FromInt(1)) => loc.masks = masks(call.x1)
        /\ (SamePadding(call.x0, call.x1)
              /\ (AllTimesAre(FromInt(0)) \/ AllTimesAre(FromInt(1))))
              => (loc.masks = masks(call.x0) /\ loc.masks = masks(call.x1))

\* C9 witness: x0 and x1 differ, pad the same node and leave the other valid,
\* and the call is made strictly inside (0, 1).
C9_Witness ==
    /\ PathReturned
    /\ SamePadding(call.x0, call.x1)
    /\ NoCrossing(call.x0, call.x1)
    /\ call.x0 # call.x1
    /\ AllTimesAre(Rat(1, 2))
    /\ \E i \in Nodes : call.x0[1][i][1] = MATRIX_PAD
    /\ \E i \in Nodes : call.x0[1][i][1] # MATRIX_PAD

\* ------------------------------------------------------------ batch sizes that differ

\* Largest batch size of x0, x1 and t.
MaxBatch == 3

ConstMat(v) == [i \in Nodes |-> [j \in Nodes |-> v]]

ShapeVals == {MATRIX_PAD, FromInt(0)}

\* Batches of 1..MaxBatch samples, each sample a constant matrix.
ShapeBatches ==
    UNION {[1..B -> {ConstMat(v) : v \in ShapeVals}] : B \in 1..MaxBatch}

ShapeTimes == UNION {[1..B -> {FromInt(0), FromInt(1)}] : B \in 1..MaxBatch}

ShapeDraws == [B \in 1..MaxBatch |-> {[b \in 1..B |-> ConstMat(v)] : v \in RandVals}]

InitShape ==
    /\ \E a \in [sigma : {FromInt(1)}] :
          /\ self = ConditionalFlowMatcher(a)
          /\ call \in {[fn |-> "pending", args |-> a, x0 |-> x0, x1 |-> x1] :
                          x0 \in ShapeBatches, x1 \in ShapeBatches}
    /\ loc = None
    /\ ret = None
    /\ pc = "ready"

SampleConditionalPtBatch == SampleConditionalPtOn(ShapeTimes, ShapeDraws)

NextShape == SampleConditionalPtBatch

SpecShape == InitShape /\ [][NextShape]_vars

ShapeCalled == call.fn = "sample_conditional_pt" /\ pc # "ready"

WideSizes == {Len(call.t), Len(call.x0), Len(call.x1)} \ {1}

=============================================================================
